---- MODULE Spec2Model ----
(***************************************************************************)
(* Model of the Mini-Pascal lexical analyser of src/lexer.py: the          *)
(* vocabulary tables, the ordered rule table rules_arr, the matching of    *)
(* one rule's pattern at a column, and Lexer.analyze as a state machine   *)
(* with one step per iteration of its scan loop.                           *)
(*                                                                         *)
(* Text is represented by TLA+ strings; a character is a string of length  *)
(* one.  Columns and line indices are 0-based, as in the code; the         *)
(* positions stored in tokens are 1-based, as the code stores them.        *)
(***************************************************************************)
EXTENDS Integers, Sequences, FiniteSets, TLC

(***************************************************************************)
(* Bounds of the model.                                                    *)
(***************************************************************************)
\* Longest generated source text, in characters.
MaxLen == 4
\* Number of times analyze is called on the same Lexer object.
NumCalls == 2

(***************************************************************************)
(* Characters and character classes (lexer.py 43-45 and the classes used   *)
(* in the patterns of lines 272-276).                                      *)
(***************************************************************************)
LowerLetters == <<"a","b","c","d","e","f","g","h","i","j","k","l","m",
                  "n","o","p","q","r","s","t","u","v","w","x","y","z">>

UpperLetters == <<"A","B","C","D","E","F","G","H","I","J","K","L","M",
                  "N","O","P","Q","R","S","T","U","V","W","X","Y","Z">>

\* [a-zA-Z]
letter == {LowerLetters[i] : i \in 1..26} \cup {UpperLetters[i] : i \in 1..26}

\* [0-9]
digit == {"0","1","2","3","4","5","6","7","8","9"}

\* [a-zA-Z0-9]
letter_or_digit == letter \cup digit

\* \s, restricted to the whitespace characters a TLA+ string can denote.
WhiteSpace == {" ", "\t", "\n", "\r", "\f"}

\* text[i] for a 0-based index i.
CharAt(text, i) == SubSeq(text, i + 1, i + 1)

\* text[i:j] for 0-based i and exclusive j.
Slice(text, i, j) == SubSeq(text, i + 1, j)

\* str.upper() on one character.
UpperChar(c) ==
    IF \E i \in 1..26 : LowerLetters[i] = c
    THEN UpperLetters[CHOOSE i \in 1..26 : LowerLetters[i] = c]
    ELSE c

RECURSIVE Upper(_)
\* str.upper()
Upper(word) ==
    IF word = "" THEN ""
    ELSE UpperChar(CharAt(word, 0)) \o Upper(Slice(word, 1, Len(word)))

(***************************************************************************)
(* The vocabulary (lexer.py 48-95), in the order of the source.            *)
(***************************************************************************)
operators ==
    << <<"+", "PLUS">>,
       <<"-", "MINUS">>,
       <<"*", "TIMES">>,
       <<"=", "EQOP">>,
       <<"<>", "NEOP">>,
       <<"<", "LTOP">>,
       <<"<=", "LEOP">>,
       <<">=", "GEOP">>,
       <<">", "GTOP">>,
       <<"(", "LEFTPARENT">>,
       <<")", "RIGHTPARENT">>,
       <<"[", "LEFTBRACKET">>,
       <<"]", "RIGHTBRACKET">>,
       <<":=", "BECOMES">>,
       <<".", "PERIOD">>,
       <<",", "COMMA">>,
       <<";", "SEMICOLON">>,
       <<":", "COLON">>,
       <<"..", "THRU">> >>

reserved_words ==
    <<"div", "or", "and", "not", "if", "then", "else", "of", "while", "do",
      "begin", "end", "read", "write", "var", "array", "function",
      "procedure", "program", "true", "false", "char", "integer", "boolean">>

(***************************************************************************)
(* Rules (lexer.py 105-124, 269-277).  A compiled pattern is a record:     *)
(* kind "literal" matches its text character by character (re.escape(op)   *)
(* and the all-letter reserved words), the other kinds are the three       *)
(* character-class patterns and the whitespace pattern.                    *)
(***************************************************************************)
Rule(symbol, type, regex) == [symbol |-> symbol, type |-> type, regex |-> regex]

Literal(text) == [kind |-> "literal", text |-> text]

Pattern(kind) == [kind |-> kind, text |-> ""]

OperatorRules ==
    [i \in 1..Len(operators) |->
        Rule(operators[i][2], "<special symbol>", Literal(operators[i][1]))]

ReservedWordRules ==
    [i \in 1..Len(reserved_words) |->
        Rule(Upper(reserved_words[i]), "<special symbol>", Literal(reserved_words[i]))]

ClassRules ==
    << Rule("CHARCONST", "<character constant>", Pattern("charconst")),
       Rule("INTCONST", "<integer constant>", Pattern("intconst")),
       Rule("IDENT", "<identifier>", Pattern("ident")),
       Rule("SPACE", "<space>", Pattern("space")) >>

\* A rule table in which the identifier rule precedes the reserved words.
rules_arr_IdentFirst ==
    OperatorRules \o <<ClassRules[3]>> \o ReservedWordRules
        \o <<ClassRules[1], ClassRules[2], ClassRules[4]>>

rules_arr == OperatorRules \o ReservedWordRules \o ClassRules

(***************************************************************************)
(* Pattern.match(line, pos=column) (lexer.py 334-336).  The result is the  *)
(* length of the match, len(regex_match.group(0)), or NoMatch when the     *)
(* pattern does not match at that column.  A match of length 0 is a match: *)
(* a Match object is true whatever its length.                             *)
(***************************************************************************)
NoMatch == -1

RECURSIVE RunLen(_, _, _)
\* Length of the longest run of characters of class cls starting at column i:
\* what a greedy [cls]* consumes.
RunLen(line, i, cls) ==
    IF i < Len(line) /\ CharAt(line, i) \in cls
    THEN 1 + RunLen(line, i + 1, cls)
    ELSE 0

\* re.escape(op) and the reserved words: the text itself.
MatchLiteral(text, line, column) ==
    IF column + Len(text) <= Len(line) /\ Slice(line, column, column + Len(text)) = text
    THEN Len(text)
    ELSE NoMatch

\* '[a-zA-Z0-9]'|"[a-zA-Z0-9\s]+"   (lexer.py 273).  In the second
\* alternative the closing quote is outside the class, so the greedy run
\* can only be followed by it at the run's end.
MatchCharConst(line, column) ==
    LET run == RunLen(line, column + 1, letter_or_digit \cup WhiteSpace)
    IN  IF /\ column + 3 <= Len(line)
           /\ CharAt(line, column) = "'"
           /\ CharAt(line, column + 1) \in letter_or_digit
           /\ CharAt(line, column + 2) = "'"
        THEN 3
        ELSE IF /\ column < Len(line)
                /\ CharAt(line, column) = "\""
                /\ run >= 1
                /\ column + 1 + run < Len(line)
                /\ CharAt(line, column + 1 + run) = "\""
             THEN run + 2
             ELSE NoMatch

\* [0-9]* : a pattern that also matches the empty string.
MatchIntConst_Star(line, column) == RunLen(line, column, digit)

\* [0-9]+   (lexer.py 274)
MatchIntConst(line, column) ==
    LET run == RunLen(line, column, digit)
    IN  IF run >= 1 THEN run ELSE NoMatch

\* [a-zA-Z][a-zA-Z0-9]*   (lexer.py 275)
MatchIdent(line, column) ==
    IF column < Len(line) /\ CharAt(line, column) \in letter
    THEN 1 + RunLen(line, column + 1, letter_or_digit)
    ELSE NoMatch

\* \s+   (lexer.py 276)
MatchSpace(line, column) ==
    LET run == RunLen(line, column, WhiteSpace)
    IN  IF run >= 1 THEN run ELSE NoMatch

RegexMatch(regex, line, column) ==
    CASE regex.kind = "literal"   -> MatchLiteral(regex.text, line, column)
      [] regex.kind = "charconst" -> MatchCharConst(line, column)
      [] regex.kind = "intconst"  -> MatchIntConst(line, column)
      [] regex.kind = "ident"     -> MatchIdent(line, column)
      [] regex.kind = "space"     -> MatchSpace(line, column)

\* The indices of the rules of table rs whose pattern matches at the column.
Matching(rs, line, column) ==
    {i \in 1..Len(rs) : RegexMatch(rs[i].regex, line, column) # NoMatch}

\* The rule with the longest match at the column (the first of them in table order).
FirstMatch_Longest(rs, line, column) ==
    LET m == Matching(rs, line, column)
        len(i) == RegexMatch(rs[i].regex, line, column)
    IN  IF m = {} THEN 0
        ELSE CHOOSE i \in m :
                 \A j \in m : len(j) < len(i) \/ (len(j) = len(i) /\ i <= j)

\* for rule in self.rules: ... if regex_match: ... break   (lexer.py 333-335,
\* 352): the index of the first rule of the table that matches, 0 when the
\* loop runs to its else clause.
FirstMatch(rs, line, column) ==
    LET m == Matching(rs, line, column)
    IN  IF m = {} THEN 0 ELSE CHOOSE i \in m : \A j \in m : i <= j

(***************************************************************************)
(* self.source.split('\n') (lexer.py 320).                                 *)
(***************************************************************************)
RECURSIVE SplitFrom(_, _, _)
\* The lines of text from index i on, given that the current line began at
\* index start.
SplitFrom(text, start, i) ==
    IF i = Len(text) THEN <<Slice(text, start, i)>>
    ELSE IF CharAt(text, i) = "\n"
         THEN <<Slice(text, start, i)>> \o SplitFrom(text, i + 1, i + 1)
         ELSE SplitFrom(text, start, i + 1)

Split(text) == SplitFrom(text, 0, 0)

(***************************************************************************)
(* Token, Pos and Output (lexer.py 156-230).  A token's rule is held as    *)
(* the rule's index in the table, 0 standing for None.  Output.filename    *)
(* depends on the file path alone and is left out.                         *)
(***************************************************************************)
None == 0

\* Pos(line_idx, column): the 0-based cursor itself.
Pos_ZeroBased(line_idx, column) == [lin |-> line_idx, col |-> column]

\* Pos(line_idx + 1, column + 1)   (lexer.py 349, 356)
Pos(line_idx, column) == [lin |-> line_idx + 1, col |-> column + 1]

Token(lexeme, pos, rule) == [lexeme |-> lexeme, pos |-> pos, rule |-> rule]

Output(line_count, lexeme_sz, column_sz, type_sz, group_sz, tokens) ==
    [line_count |-> line_count,
     largest_lexeme_size |-> lexeme_sz,
     largest_column_size |-> column_sz,
     largest_type_size |-> type_sz,
     largest_group_size |-> group_sz,
     tokens |-> tokens]

Max(a, b) == IF a > b THEN a ELSE b

(***************************************************************************)
(* The source texts analysed.  Every text over each of three small         *)
(* alphabets up to MaxLen characters, and the texts of the vocabulary and  *)
(* of the documented examples.                                             *)
(***************************************************************************)
RECURSIVE Texts(_, _)
\* The texts of exactly n characters over alphabet sigma.
Texts(sigma, n) ==
    IF n = 0 THEN {""}
    ELSE {t \o c : t \in Texts(sigma, n - 1), c \in sigma}

TextsUpTo(sigma, n) == UNION {Texts(sigma, k) : k \in 0..n}

\* Words, numbers, blanks, lines and a character of no rule.
SigmaWords == {"i", "f", "1", " ", "\n", "@"}

\* Operators and their prefixes.
SigmaOperators == {"<", "=", ">", ":", ".", " "}

\* Character constants and whitespace.
SigmaQuotes == {"'", "\"", "a", " ", "\t", "\n"}

VocabularyTexts ==
    {operators[i][1] : i \in 1..Len(operators)}
        \cup {reserved_words[i] : i \in 1..Len(reserved_words)}

ExampleTexts ==
    {"ifx", "x1 := 10", "123 @ 456", "a := 1;\n b @ 2\nend", "\"a b\" 'c'\r\n\f"}

Sources ==
    TextsUpTo(SigmaWords, MaxLen) \cup TextsUpTo(SigmaOperators, MaxLen)
        \cup TextsUpTo(SigmaQuotes, MaxLen) \cup VocabularyTexts \cup ExampleTexts

\* A number, blanks, lines and a character of no rule: the texts on which
\* termination is checked.
SigmaFair == {"1", " ", "\n", "@"}

FairSources == TextsUpTo(SigmaFair, MaxLen) \cup ExampleTexts

(***************************************************************************)
(* State.  source and rules are the Lexer object's attributes (lexer.py    *)
(* 301-304); lines, line_idx, column, table, the four largest_* and        *)
(* error_found are the locals of analyze (lexer.py 319-331); pc is the     *)
(* position of the call; outputs holds the Output of every call returned   *)
(* so far.  discarded is a history variable: the lexemes matched by the    *)
(* SPACE rule, which the code consumes without recording (lexer.py         *)
(* 348-351).                                                               *)
(***************************************************************************)
VARIABLES source, rules, lines, line_idx, column, table,
          largest_lexeme_found_sz, largest_column_pos, largest_group_sz,
          largest_type_sz, error_found, pc, outputs, discarded

vars == <<source, rules, lines, line_idx, column, table,
          largest_lexeme_found_sz, largest_column_pos, largest_group_sz,
          largest_type_sz, error_found, pc, outputs, discarded>>

\* A table that keeps the tokens of the previous call.
FreshTable_Kept == table

\* table = []   (lexer.py 319)
FreshTable == <<>>

\* The loop condition without the error flag.
WhileCond_NoFlag(col, line, err) == col < Len(line)

\* while column < len(line) and not error_found   (lexer.py 332)
WhileCond(col, line, err) == col < Len(line) /\ ~err

\* Every matched rule gives a token.
Emits_All(rule) == TRUE

\* if rule.symbol != "SPACE"   (lexer.py 348)
Emits(rule) == rule.symbol # "SPACE"

\* column += 1
Advance_One(col, lexeme) == col + 1

\* column += len(lexeme)   (lexer.py 351)
Advance(col, lexeme) == col + Len(lexeme)

\* The line being scanned, lines[line_idx] of the code.
CurrentLine == lines[line_idx + 1]

Init ==
    /\ source \in Sources
    /\ rules = rules_arr
    /\ lines = <<>>
    /\ line_idx = 0
    /\ column = 0
    /\ table = <<>>
    /\ largest_lexeme_found_sz = 0
    /\ largest_column_pos = 0
    /\ largest_group_sz = 0
    /\ largest_type_sz = 0
    /\ error_found = FALSE
    /\ pc = "idle"
    /\ outputs = <<>>
    /\ discarded = <<>>

FairInit ==
    /\ source \in FairSources
    /\ rules = rules_arr
    /\ lines = <<>>
    /\ line_idx = 0
    /\ column = 0
    /\ table = <<>>
    /\ largest_lexeme_found_sz = 0
    /\ largest_column_pos = 0
    /\ largest_group_sz = 0
    /\ largest_type_sz = 0
    /\ error_found = FALSE
    /\ pc = "idle"
    /\ outputs = <<>>
    /\ discarded = <<>>

\* A call of analyze: lexer.py 319-331, up to the first line's column = 0.
Begin ==
    /\ pc \in {"idle", "done"}
    /\ Len(outputs) < NumCalls
    /\ table' = FreshTable
    /\ lines' = Split(source)
    /\ largest_lexeme_found_sz' = 0
    /\ largest_column_pos' = 0
    /\ largest_group_sz' = 0
    /\ largest_type_sz' = 0
    /\ error_found' = FALSE
    /\ line_idx' = 0
    /\ column' = 0
    /\ discarded' = <<>>
    /\ pc' = "scan"
    /\ UNCHANGED <<source, rules, outputs>>

\* One iteration of the while loop in which a rule matches (lexer.py 332-352).
MatchStep ==
    /\ pc = "scan"
    /\ line_idx < Len(lines)
    /\ WhileCond(column, CurrentLine, error_found)
    /\ FirstMatch(rules, CurrentLine, column) # 0
    /\ LET r == FirstMatch(rules, CurrentLine, column)
           rule == rules[r]
           lexeme == Slice(CurrentLine, column,
                           column + RegexMatch(rule.regex, CurrentLine, column))
       IN  /\ largest_lexeme_found_sz' = Max(largest_lexeme_found_sz, Len(lexeme))
           /\ largest_column_pos' = Max(largest_column_pos, column + 1)
           /\ largest_type_sz' = Max(largest_type_sz, Len(rule.type))
           /\ largest_group_sz' = Max(largest_group_sz, Len(rule.symbol))
           /\ IF Emits(rule)
              THEN /\ table' = Append(table, Token(lexeme, Pos(line_idx, column), r))
                   /\ UNCHANGED discarded
              ELSE /\ discarded' = Append(discarded, Token(lexeme, Pos(line_idx, column), r))
                   /\ UNCHANGED table
           /\ column' = Advance(column, lexeme)
    /\ UNCHANGED <<source, rules, lines, line_idx, error_found, pc, outputs>>

\* One iteration of the while loop in which no rule matches: the else clause
\* of the for loop (lexer.py 353-359).
ErrorStep ==
    /\ pc = "scan"
    /\ line_idx < Len(lines)
    /\ WhileCond(column, CurrentLine, error_found)
    /\ FirstMatch(rules, CurrentLine, column) = 0
    /\ table' = Append(table, Token(CharAt(CurrentLine, column), Pos(line_idx, column), None))
    /\ error_found' = TRUE
    /\ UNCHANGED <<source, rules, lines, line_idx, column, largest_lexeme_found_sz,
                   largest_column_pos, largest_group_sz, largest_type_sz, pc,
                   outputs, discarded>>

\* The while condition is false: the for loop takes the next line, with
\* column = 0 (lexer.py 330-332).
NextLine ==
    /\ pc = "scan"
    /\ line_idx < Len(lines)
    /\ ~WhileCond(column, CurrentLine, error_found)
    /\ line_idx' = line_idx + 1
    /\ column' = 0
    /\ UNCHANGED <<source, rules, lines, table, largest_lexeme_found_sz,
                   largest_column_pos, largest_group_sz, largest_type_sz,
                   error_found, pc, outputs, discarded>>

\* The lines are exhausted: return Output(...)   (lexer.py 361-367).
Return ==
    /\ pc = "scan"
    /\ line_idx = Len(lines)
    /\ outputs' = Append(outputs,
                         Output(Len(lines), largest_lexeme_found_sz, largest_column_pos,
                                largest_type_sz, largest_group_sz, table))
    /\ pc' = "done"
    /\ UNCHANGED <<source, rules, lines, line_idx, column, table,
                   largest_lexeme_found_sz, largest_column_pos, largest_group_sz,
                   largest_type_sz, error_found, discarded>>

Next == Begin \/ MatchStep \/ ErrorStep \/ NextLine \/ Return

Spec == Init /\ [][Next]_vars

\* analyze is straight-line sequential code: a call that can take a step takes it.
FairSpec == FairInit /\ [][Next]_vars /\ WF_vars(Next)

(***************************************************************************)
(* Properties.                                                             *)
(***************************************************************************)
\* The token sequences produced so far: the table being built and the
\* tokens of every Output returned.
TokenSeqs == {table} \cup {outputs[k].tokens : k \in 1..Len(outputs)}

\* The rule of a token that has one.
RuleOf(t) == rules[t.rule]

\* C1: a token sequence of analyze holds at most one error token (rule =
\* None), and an error token is the last element of the sequence.
C1_OneErrorAndLast ==
    \A toks \in TokenSeqs :
        \A i \in 1..Len(toks) : toks[i].rule = None => i = Len(toks)

\* A finished scan whose error token is followed by more text on its own
\* line and by a non-empty later line.
C1_Witness ==
    /\ pc = "done"
    /\ Len(table) >= 2
    /\ LET e == table[Len(table)]
       IN  /\ e.rule = None
           /\ e.pos.col < Len(lines[e.pos.lin])
           /\ e.pos.lin < Len(lines)
           /\ Len(lines[e.pos.lin + 1]) > 0

\* C2: analyze on a source that is exactly one multi-character operator
\* returns exactly one token, carrying that operator's own symbol.
C2_MultiCharOperatorIsOneToken ==
    \A i \in 1..Len(operators) :
        (Len(operators[i][1]) > 1 /\ source = operators[i][1]) =>
            \A k \in 1..Len(outputs) :
                /\ Len(outputs[k].tokens) = 1
                /\ outputs[k].tokens[1].rule # None
                /\ RuleOf(outputs[k].tokens[1]).symbol = operators[i][2]

\* Every lexeme the scan has committed to: the tokens and the discarded
\* whitespace.
Commits == table \o discarded

\* C3: every lexeme committed to is the match of the first rule in table
\* order that matches at its column, it is not empty, and no earlier rule
\* matches there; an error token stands where no rule matches; and the
\* source ifx gives the reserved word IF followed by the identifier x.
C3_FirstRuleInTableOrder ==
    /\ \A i \in 1..Len(Commits) :
           LET t == Commits[i]
               line == lines[t.pos.lin]
               col == t.pos.col - 1
           IN  IF t.rule = None
               THEN Matching(rules, line, col) = {}
               ELSE /\ Len(t.lexeme) >= 1
                    /\ RegexMatch(RuleOf(t).regex, line, col) = Len(t.lexeme)
                    /\ t.lexeme = Slice(line, col, col + Len(t.lexeme))
                    /\ \A j \in 1..(t.rule - 1) :
                           RegexMatch(rules[j].regex, line, col) = NoMatch
    /\ source = "ifx" =>
           \A k \in 1..Len(outputs) :
               LET toks == outputs[k].tokens
               IN  /\ Len(toks) = 2
                   /\ toks[1].lexeme = "if" /\ toks[1].pos = [lin |-> 1, col |-> 1]
                   /\ toks[1].rule # None /\ RuleOf(toks[1]).symbol = "IF"
                   /\ toks[2].lexeme = "x" /\ toks[2].pos = [lin |-> 1, col |-> 3]
                   /\ toks[2].rule # None /\ RuleOf(toks[2]).symbol = "IDENT"

\* A returned token whose rule matched although a rule later in the table
\* matches a longer lexeme at the same column.
C3_Witness ==
    /\ pc = "done"
    /\ \E i \in 1..Len(table) :
           LET t == table[i]
               line == lines[t.pos.lin]
           IN  /\ t.rule # None
               /\ \E j \in (t.rule + 1)..Len(rules) :
                      RegexMatch(rules[j].regex, line, t.pos.col - 1) > Len(t.lexeme)

\* C4: every token's lexeme is the substring of line pos.lin of the source
\* (1-based, split on "\n") that starts at the 1-based column pos.col, and
\* an error token's lexeme is exactly one character.
C4_PositionIsLexemeLocation ==
    \A toks \in TokenSeqs :
        \A i \in 1..Len(toks) :
            LET t == toks[i]
                srclines == Split(source)
            IN  /\ t.pos.lin \in 1..Len(srclines)
                /\ t.pos.col >= 1
                /\ t.pos.col - 1 + Len(t.lexeme) <= Len(srclines[t.pos.lin])
                /\ SubSeq(srclines[t.pos.lin], t.pos.col, t.pos.col - 1 + Len(t.lexeme))
                       = t.lexeme
                /\ t.rule = None => Len(t.lexeme) = 1

\* A returned table with a rule's token beyond the first line and the first
\* column, ending with an error token beyond the first column.
C4_Witness ==
    /\ pc = "done"
    /\ Len(table) >= 2
    /\ table[Len(table)].rule = None
    /\ table[Len(table)].pos.col >= 2
    /\ \E i \in 1..Len(table) :
           /\ table[i].rule # None
           /\ table[i].pos.lin >= 2
           /\ table[i].pos.col >= 2
           /\ Len(table[i].lexeme) >= 1

\* The indices of the committed lexemes of 1-based line l.
OnLine(l) == {i \in 1..Len(Commits) : Commits[i].pos.lin = l}

RECURSIVE ConcatInOrder(_)
\* The lexemes of the commits of index set S, concatenated in the order of
\* their columns.
ConcatInOrder(S) ==
    IF S = {} THEN ""
    ELSE LET first == CHOOSE i \in S :
                          \A j \in S : \/ Commits[i].pos.col < Commits[j].pos.col
                                       \/ (Commits[i].pos.col = Commits[j].pos.col /\ i <= j)
         IN  Commits[first].lexeme \o ConcatInOrder(S \ {first})

\* C5, as stated: when analyze returns, the lexemes of the tokens and the
\* discarded whitespace of every line, in position order, give the line.
C5_RoundTripEveryLine ==
    pc = "done" => \A l \in 1..Len(lines) : ConcatInOrder(OnLine(l)) = lines[l]

\* C5, amended: the round trip gives every line when no error token is
\* returned, and otherwise every line before the error token's line; on the
\* error token's line it gives the prefix that ends with the offending
\* character, and on the later lines nothing.
C5_RoundTripScannedText ==
    pc = "done" =>
        \A l \in 1..Len(lines) :
            IF Len(table) > 0 /\ table[Len(table)].rule = None
            THEN LET e == table[Len(table)]
                 IN  ConcatInOrder(OnLine(l)) =
                         IF l < e.pos.lin THEN lines[l]
                         ELSE IF l = e.pos.lin THEN Slice(lines[l], 0, e.pos.col)
                         ELSE ""
            ELSE ConcatInOrder(OnLine(l)) = lines[l]

\* A finished scan with an error token on a later line, whose first line
\* holds several tokens and discarded whitespace and is given back whole.
C5_Witness ==
    /\ pc = "done"
    /\ Len(table) >= 3
    /\ table[Len(table)].rule = None
    /\ table[Len(table)].pos.lin >= 2
    /\ table[Len(table)].pos.col < Len(lines[table[Len(table)].pos.lin])
    /\ \E i \in 1..Len(discarded) : discarded[i].pos.lin = 1
    /\ Cardinality(OnLine(1)) >= 3
    /\ ConcatInOrder(OnLine(1)) = lines[1]

\* The symbols the reserved words are to carry, in the order of reserved_words.
ReservedSymbols ==
    <<"DIV", "OR", "AND", "NOT", "IF", "THEN", "ELSE", "OF", "WHILE", "DO",
      "BEGIN", "END", "READ", "WRITE", "VAR", "ARRAY", "FUNCTION",
      "PROCEDURE", "PROGRAM", "TRUE", "FALSE", "CHAR", "INTEGER", "BOOLEAN">>

\* C6: analyze on a source that is exactly one reserved word returns exactly
\* one token: the word, at line 1 column 1, with the word's own rule, whose
\* symbol is the word in upper case and whose type is <special symbol>.
C6_ReservedWordIsOneToken ==
    /\ Len(reserved_words) = 24
    /\ \A i \in 1..Len(reserved_words) :
           source = reserved_words[i] =>
               \A k \in 1..Len(outputs) :
                   LET toks == outputs[k].tokens
                   IN  /\ Len(toks) = 1
                       /\ toks[1].lexeme = reserved_words[i]
                       /\ toks[1].pos = [lin |-> 1, col |-> 1]
                       /\ toks[1].rule = Len(operators) + i
                       /\ RuleOf(toks[1]).symbol = ReservedSymbols[i]
                       /\ RuleOf(toks[1]).type = "<special symbol>"

\* A returned scan of the reserved word program, which shares a prefix with
\* the earlier word procedure.
C6_Witness ==
    /\ pc = "done"
    /\ source = "program"
    /\ Len(outputs) >= 1
    /\ Len(outputs[1].tokens) = 1

\* Only spaces, tabs and newlines.
AllWhitespace(text) ==
    \A i \in 0..(Len(text) - 1) : CharAt(text, i) \in {" ", "\t", "\n"}

\* C7: no token carries the SPACE rule, and a source of whitespace alone
\* gives an empty token sequence (hence no error token).
C7_WhitespaceNeverEmitted ==
    \A toks \in TokenSeqs :
        /\ \A i \in 1..Len(toks) :
               toks[i].rule # None => RuleOf(toks[i]).symbol # "SPACE"
        /\ AllWhitespace(source) => toks = <<>>

\* A returned scan of a source made of a space, a tab and a newline, in
\* which whitespace was consumed.
C7_Witness ==
    /\ pc = "done"
    /\ Len(outputs) >= 1
    /\ AllWhitespace(source)
    /\ \A c \in {" ", "\t", "\n"} : \E i \in 0..(Len(source) - 1) : CharAt(source, i) = c
    /\ Len(discarded) >= 1

\* C8: all calls of analyze on the same source return the same Output (the
\* tokens, the line count and the four maxima), and the rule table is the
\* one built at construction.
C8_Idempotent ==
    /\ \A i, j \in 1..Len(outputs) : outputs[i] = outputs[j]
    /\ rules = rules_arr

\* A second call has returned, with several tokens, an error token among them.
C8_Witness ==
    /\ pc = "done"
    /\ Len(outputs) >= 2
    /\ Len(outputs[2].tokens) >= 2
    /\ outputs[2].tokens[Len(outputs[2].tokens)].rule = None
    /\ outputs[2].largest_lexeme_size >= 1

\* C9: every returned token, a final error token included, has a lexeme no
\* longer than largest_lexeme_size and a column no larger than
\* largest_column_size.
C9_MaximaBoundEveryToken ==
    \A k \in 1..Len(outputs) :
        \A i \in 1..Len(outputs[k].tokens) :
            /\ Len(outputs[k].tokens[i].lexeme) <= outputs[k].largest_lexeme_size
            /\ outputs[k].tokens[i].pos.col <= outputs[k].largest_column_size

\* An iteration of the while loop is about to run.
InWhileLoop ==
    pc = "scan" /\ line_idx < Len(lines) /\ WhileCond(column, CurrentLine, error_found)

\* C10: every call of analyze returns; each iteration of the while loop
\* either moves the column forward or appends the error token and sets the
\* error flag; and once the flag is set no column moves forward in that call.
C10_Terminates ==
    /\ <>(pc = "done" /\ Len(outputs) = NumCalls)
    /\ [][InWhileLoop =>
             \/ column' > column
             \/ /\ ~error_found /\ error_found'
                /\ Len(table') = Len(table) + 1
                /\ table'[Len(table')].rule = None]_vars
    /\ [][error_found => (error_found' => column' <= column)]_vars

\* The last call has returned after an error on a line that is not the last:
\* the scan went through the remaining lines without moving a column.
C10_Witness ==
    /\ pc = "done"
    /\ Len(outputs) = NumCalls
    /\ error_found
    /\ Len(table) >= 2
    /\ table[Len(table)].pos.lin < Len(lines)
    /\ Len(lines[Len(lines)]) > 0

====
